---- MODULE Spec2Model ----
(***************************************************************************)
(* Model of the chatbot router of agri_backend (app/routers/chatbot.py):   *)
(* the ConversationManager (conversation map, rate-window map, RLock), the *)
(* /chat, /text-to-speech and /conversation/clear handlers and the         *)
(* background cleanup worker.                                              *)
(*                                                                         *)
(* Time is the wall clock in whole seconds.  A Python list is an object:   *)
(* conversations[s].messages is a reference into heap, so that a handler   *)
(* holding the list returned by get_conversation aliases the stored list   *)
(* until add_message replaces it by a slice (a new list).                  *)
(***************************************************************************)
EXTENDS Integers, Sequences, FiniteSets, TLC

VARIABLES
    now,              \* time.time() / datetime.now(), seconds
    conversations,    \* ConversationManager.conversations: session -> record
    heap,             \* the list objects: list id -> sequence of messages
    message_counts,   \* ConversationManager.message_counts: session -> deque
    lock,             \* ConversationManager.lock (RLock): owner and depth
    pc,               \* position of each request thread
    arg,              \* the request a thread is serving
    hist,             \* chat: conversation_history (a list reference)
    conversation,     \* add_message: local `conversation` (a list reference)
    status,           \* HTTP status answered by the thread's last request
    wpc,              \* position of cleanup_worker
    wakeAt,           \* when the worker's time.sleep(300) ends
    started,          \* number of requests started so far
    log,              \* history: per session, contents in lock-acquisition order
    admitted,         \* history: per session, times of admitted chat requests
    rejected,         \* history: per session, times of rejected chat requests
    since,            \* history: per session, how many of them preceded the last
                      \* deletion of the session's rate window
    faults,           \* history: sweeps that raised so far
    knowledge_base,   \* chatbot.py: the global knowledge_base
    query,            \* retrieve_context: its argument, once called
    context,          \* retrieve_context: what it returned
    model,            \* disease.py: the global model, None when not loaded
    upload            \* predict_disease: the request and its answer

\* the variables of retrieve_context and of predict_disease
others == <<knowledge_base, query, context, model, upload>>

vars == <<now, conversations, heap, message_counts, lock, pc, arg, hist,
          conversation, status, wpc, wakeAt, started, log, admitted,
          rejected, since, faults, others>>

-----------------------------------------------------------------------------
(* Program constants *)

\* conversation[-20:], len(conversation) > 20
MAX_HISTORY == 20
\* minute_ago = now - 60
WINDOW == 60
\* time.sleep(300)
SWEEP_INTERVAL == 300
\* conversation_history[-6:]
PROMPT_TURNS == 6
\* RATE_LIMIT_PER_MINUTE from the environment; configured to 2 here
RATE_LIMIT_PER_MINUTE == 2
\* CONVERSATION_TIMEOUT from the environment; configured to 30 seconds here
CONVERSATION_TIMEOUT == 30

(* Bounds of the model *)

\* the clock stops advancing here
MaxTime == 31
\* requests started in one behaviour
MaxRequests == 3
\* the clock and the requests of the rate-limit specification
MaxRateTime == 62
MaxRateRequests == 4
\* add_message calls of the single caller in one behaviour
MaxAppends == 23
\* add_message calls of the concurrent callers in one behaviour
MaxConcAppends == 5
\* sweeps that raise in one behaviour
MaxSweepFaults == 1

Sessions == {"s1", "s2"}
\* the event-loop thread runs the async handlers (chat, text_to_speech) one at
\* a time; the sync handler clear_conversation runs in a pool thread
LoopThread == "loop"
PoolThreads == {"pool"}
Threads == {LoopThread} \cup PoolThreads
\* the worker holds the lock under this name
Worker == "worker"
NoOne == "none"
NoList == 0
\* seconds the clock may advance in one step
TickSteps == {30, 31}

-----------------------------------------------------------------------------
(* Helpers *)

Min(a, b) == IF a < b THEN a ELSE b

Without(f, S) == [x \in (DOMAIN f) \ S |-> f[x]]

\* conversation[-n:]
LastN(seq, n) == IF Len(seq) <= n THEN seq ELSE SubSeq(seq, Len(seq) - n + 1, Len(seq))

\* a list id no live list uses
FreshList(hp) == CHOOSE i \in 1..(Cardinality(DOMAIN hp) + 1) : i \notin DOMAIN hp

\* the list objects still referenced by the store or by a thread's locals
Live(convs, h, c) ==
    ({convs[s].messages : s \in DOMAIN convs} \cup {h[t] : t \in Threads}
        \cup {c[t] : t \in Threads}) \ {NoList}

Collect(hp, convs, h, c) == [i \in (DOMAIN hp) \cap Live(convs, h, c) |-> hp[i]]

\* the list a prefilled session is given
ListOf(s) == IF s = "s1" THEN 1 ELSE 2

\* the messages of a stored session, <<>> when the session has no record
Stored(s) == IF s \in DOMAIN conversations THEN heap[conversations[s].messages] ELSE <<>>

-----------------------------------------------------------------------------
(* threading.RLock *)

\* a lock that excludes nobody
CanAcquireAlways(t) == TRUE

\* `with self.lock:` can be entered by t
CanAcquire(t) == lock.owner \in {NoOne, t}

\* the lock once t has entered a with block
Acquire(l, t) == [owner |-> t, depth |-> l.depth + 1]

\* a with block that never lets go of the lock
ReleaseNever(l, t) == l

\* the lock once t has left a with block
Release(l, t) == IF l.depth <= 1 THEN [owner |-> NoOne, depth |-> 0]
                 ELSE [owner |-> l.owner, depth |-> l.depth - 1]

Holds(t) == lock.owner = t

-----------------------------------------------------------------------------
(* ConversationManager: the bodies of the locked sections *)

NewConversationRecord(l, t) == [messages |-> l, created_at |-> t, last_activity |-> t]

\* get_conversation: the conversation map after the call
GetConversationMap(convs, hp, s, t) ==
    IF s \in DOMAIN convs THEN convs
    ELSE (s :> NewConversationRecord(FreshList(hp), t)) @@ convs

\* get_conversation: the heap after the call
GetConversationHeap(convs, hp, s) ==
    IF s \in DOMAIN convs THEN hp ELSE (FreshList(hp) :> <<>>) @@ hp

NewMessage(role, content, t) == [role |-> role, content |-> content, timestamp |-> t]

\* a slice from the wrong end: conversation[:20]
TruncatedHead(msgs) == SubSeq(msgs, 1, Min(Len(msgs), MAX_HISTORY))

\* add_message: the slice that replaces an over-long list
Truncated(msgs) == LastN(msgs, MAX_HISTORY)

NeedsTruncation(msgs) == Len(msgs) > MAX_HISTORY

\* message_counts is a defaultdict: a missing key reads as an empty deque
DequeOf(mc, s) == IF s \in DOMAIN mc THEN mc[s] ELSE <<>>

\* a purge with `if` in place of `while`: at most one timestamp is dropped
PurgedOnce(q, minute_ago) == IF q # <<>> /\ q[1] < minute_ago THEN Tail(q) ELSE q

\* a purge that drops nothing
PurgedNothing(q, minute_ago) == q

\* a purge that also drops a timestamp exactly 60 seconds old
RECURSIVE PurgedInclusive(_, _)
PurgedInclusive(q, minute_ago) ==
    IF q # <<>> /\ q[1] <= minute_ago THEN PurgedInclusive(Tail(q), minute_ago) ELSE q

\* while q and q[0] < minute_ago: q.popleft()
RECURSIVE Purged(_, _)
Purged(q, minute_ago) ==
    IF q # <<>> /\ q[1] < minute_ago THEN Purged(Tail(q), minute_ago) ELSE q

\* an off-by-one test of the limit: len(...) > RATE_LIMIT_PER_MINUTE
AtLimitStrict(q) == Len(q) > RATE_LIMIT_PER_MINUTE

\* len(self.message_counts[session_id]) >= RATE_LIMIT_PER_MINUTE
AtLimit(q) == Len(q) >= RATE_LIMIT_PER_MINUTE

\* a check that never limits
NeverLimited(q, t) == FALSE

\* is_rate_limited: the value returned at time t
IsRateLimited(q, t) == AtLimit(Purged(q, t - WINDOW))

\* a check that records the attempt even when it rejects it
WindowAlwaysRecorded(q, t) == Append(Purged(q, t - WINDOW), t)

\* is_rate_limited: the deque it leaves at time t
WindowAfter(q, t) ==
    LET p == Purged(q, t - WINDOW) IN IF AtLimit(p) THEN p ELSE Append(p, t)

\* a sweep that also takes a session idle for exactly the timeout
IsExpiredInclusive(data, t) == data.last_activity <= t - CONVERSATION_TIMEOUT

\* cleanup_old_conversations: data['last_activity'] < cutoff_time
IsExpired(data, t) == data.last_activity < t - CONVERSATION_TIMEOUT

ExpiredSessions(convs, t) == {s \in DOMAIN convs : IsExpired(convs[s], t)}

-----------------------------------------------------------------------------
(* Initial state: the store as constructed, every thread idle *)

\* retrieve_context has not been called: no argument, nothing returned
NoQuery == <<>>
NoContext == [kind |-> "none", entries |-> <<>>]

\* no upload has been made to /predict
NoUpload == [pc |-> "idle", content_type |-> [given |-> FALSE, text |-> <<>>],
             sent |-> FALSE, status |-> 0]

\* the knowledge base is not loaded, retrieve_context is not called, the
\* disease model is loaded and no upload is made
InitOthers ==
    /\ knowledge_base = <<>>
    /\ query = NoQuery
    /\ context = NoContext
    /\ model = TRUE
    /\ upload = NoUpload

NoArg == [kind |-> "none", sid |-> "none", role |-> "none", content |-> 0]

InitStore ==
    /\ now = 0
    /\ conversations = <<>>
    /\ heap = <<>>
    /\ message_counts = <<>>
    /\ lock = [owner |-> NoOne, depth |-> 0]
    /\ pc = [t \in Threads |-> "idle"]
    /\ arg = [t \in Threads |-> NoArg]
    /\ hist = [t \in Threads |-> NoList]
    /\ conversation = [t \in Threads |-> NoList]
    /\ status = [t \in Threads |-> 0]
    /\ wpc = "sleep"
    /\ started = 0
    /\ log = [s \in Sessions |-> <<>>]
    /\ admitted = [s \in Sessions |-> <<>>]
    /\ rejected = [s \in Sessions |-> <<>>]
    /\ since = [s \in Sessions |-> 0]
    /\ faults = 0

-----------------------------------------------------------------------------
(* add_message, as the calling thread runs it *)

\* threads that have called add_message for s and wait for the lock
Pending(s) == {t \in Threads : pc[t] = "am_acquire" /\ arg[t].sid = s}

\* add_message calls made so far on s
Calls(s) == Len(log[s]) + Cardinality(Pending(s))

\* a caller outside the handlers calls add_message(s, "user", content); the
\* content is the number of the call on that session
StartAppend(t, s, max) ==
    /\ pc[t] \in {"idle", "done"}
    /\ started < max
    /\ started' = started + 1
    /\ arg' = [arg EXCEPT ![t] = [kind |-> "append", sid |-> s, role |-> "user",
                                  content |-> Calls(s) + 1]]
    /\ pc' = [pc EXCEPT ![t] = "am_acquire"]
    /\ status' = [status EXCEPT ![t] = 0]
    /\ UNCHANGED <<now, conversations, heap, message_counts, lock, hist,
                   conversation, wpc, wakeAt, log, admitted, rejected, since, faults, others>>

\* `with self.lock:` and conversation = self.get_conversation(session_id),
\* which takes the lock again and creates the record when it is missing
AmAcquire(t) ==
    /\ pc[t] = "am_acquire"
    /\ CanAcquire(t)
    /\ lock' = Release(Acquire(Acquire(lock, t), t), t)
    /\ LET s == arg[t].sid
           convs1 == GetConversationMap(conversations, heap, s, now)
           hp1 == GetConversationHeap(conversations, heap, s)
           conv1 == [conversation EXCEPT ![t] = convs1[s].messages]
       IN /\ conversations' = convs1
          /\ conversation' = conv1
          /\ heap' = Collect(hp1, convs1, hist, conv1)
    /\ log' = [log EXCEPT ![arg[t].sid] = Append(@, arg[t].content)]
    /\ pc' = [pc EXCEPT ![t] = "am_body"]
    /\ UNCHANGED <<now, message_counts, arg, hist, status, wpc, wakeAt, started,
                   admitted, rejected, since, faults, others>>

\* where a thread goes when add_message returns
AfterAddMessage(t) ==
    IF arg[t].kind = "chat" /\ arg[t].role = "user" THEN "generate" ELSE "done"

\* conversation.append({...}); self.conversations[session_id]['last_activity']
\* = datetime.now(); if len(conversation) > 20: ...['messages'] =
\* conversation[-20:]; the lock is released on leaving the with block
AmBody(t) ==
    /\ pc[t] = "am_body"
    /\ LET s == arg[t].sid
           l == conversation[t]
           hp1 == [heap EXCEPT ![l] = Append(@, NewMessage(arg[t].role, arg[t].content, now))]
           conv1 == [conversation EXCEPT ![t] = NoList]
           nxt == IF s \in DOMAIN conversations THEN AfterAddMessage(t) ELSE "done"
           h1 == IF nxt = "done" THEN [hist EXCEPT ![t] = NoList] ELSE hist
       IN /\ IF s \notin DOMAIN conversations
             THEN \* KeyError on last_activity: the request fails
                  /\ conversations' = conversations
                  /\ heap' = Collect(hp1, conversations, h1, conv1)
                  /\ status' = [status EXCEPT ![t] = 500]
             ELSE LET f == FreshList(hp1)
                      cut == NeedsTruncation(hp1[l])
                      convs1 == [conversations EXCEPT
                                   ![s].last_activity = now,
                                   ![s].messages = IF cut THEN f ELSE @]
                      hp2 == IF cut THEN (f :> Truncated(hp1[l])) @@ hp1 ELSE hp1
                  IN /\ conversations' = convs1
                     /\ heap' = Collect(hp2, convs1, h1, conv1)
                     /\ status' = [status EXCEPT ![t] = IF nxt = "done" THEN 200 ELSE @]
          /\ conversation' = conv1
          /\ hist' = h1
          /\ pc' = [pc EXCEPT ![t] = nxt]
    /\ lock' = Release(lock, t)
    /\ UNCHANGED <<now, message_counts, arg, wpc, wakeAt, started, log,
                   admitted, rejected, since, faults, others>>

-----------------------------------------------------------------------------
(* Specifications of add_message alone: one caller, and concurrent callers *)

InitAppend == InitStore /\ InitOthers /\ wakeAt = SWEEP_INTERVAL

MainThread == LoopThread

NextSeq ==
    \/ \E s \in Sessions : StartAppend(MainThread, s, MaxAppends)
    \/ AmAcquire(MainThread)
    \/ AmBody(MainThread)

SpecSeq == InitAppend /\ [][NextSeq]_vars

NextAppend ==
    \/ \E t \in Threads, s \in Sessions : StartAppend(t, s, MaxConcAppends)
    \/ \E t \in Threads : AmAcquire(t)
    \/ \E t \in Threads : AmBody(t)

\* the store after n sequential add_message calls on every session at time 0
Prefilled(n) ==
    /\ now = 0
    /\ conversations = [s \in Sessions |-> NewConversationRecord(ListOf(s), 0)]
    /\ heap = [i \in {ListOf(s) : s \in Sessions} |->
                 [k \in 1..n |-> NewMessage("user", k, 0)]]
    /\ message_counts = <<>>
    /\ lock = [owner |-> NoOne, depth |-> 0]
    /\ pc = [t \in Threads |-> "idle"]
    /\ arg = [t \in Threads |-> NoArg]
    /\ hist = [t \in Threads |-> NoList]
    /\ conversation = [t \in Threads |-> NoList]
    /\ status = [t \in Threads |-> 0]
    /\ wpc = "sleep"
    /\ wakeAt = SWEEP_INTERVAL
    /\ started = 0
    /\ log = [s \in Sessions |-> [k \in 1..n |-> k]]
    /\ admitted = [s \in Sessions |-> <<>>]
    /\ rejected = [s \in Sessions |-> <<>>]
    /\ since = [s \in Sessions |-> 0]
    /\ faults = 0
    /\ InitOthers

\* concurrent callers start on an empty store or on sessions about to overflow
InitConc == InitAppend \/ Prefilled(MAX_HISTORY - 2)

SpecAppend == InitConc /\ [][NextAppend]_vars

-----------------------------------------------------------------------------
(* POST /chat: an async handler with no await, run by the event-loop thread *)

\* message = chat_request.message.strip();
\* if len(message) > MAX_MESSAGE_LENGTH: raise HTTPException(400)
StartChat(t, s, long, max) ==
    /\ t = LoopThread
    /\ pc[t] \in {"idle", "done"}
    /\ started < max
    /\ started' = started + 1
    /\ arg' = [arg EXCEPT ![t] = [kind |-> "chat", sid |-> s, role |-> "user",
                                  content |-> started + 1]]
    /\ pc' = [pc EXCEPT ![t] = IF long THEN "done" ELSE "rate_check"]
    /\ status' = [status EXCEPT ![t] = IF long THEN 400 ELSE 0]
    /\ UNCHANGED <<now, conversations, heap, message_counts, lock, hist,
                   conversation, wpc, wakeAt, log, admitted, rejected, since, faults, others>>

\* if conversation_manager.is_rate_limited(session_id): raise HTTPException(429)
\* is_rate_limited runs under the lock from its first line to its return
RateLimit(t) ==
    /\ pc[t] = "rate_check"
    /\ CanAcquire(t)
    /\ lock' = Release(Acquire(lock, t), t)
    /\ LET s == arg[t].sid
           q == DequeOf(message_counts, s)
           limited == IsRateLimited(q, now)
       IN /\ message_counts' = (s :> WindowAfter(q, now)) @@ message_counts
          /\ admitted' = IF limited THEN admitted
                         ELSE [admitted EXCEPT ![s] = Append(@, now)]
          /\ rejected' = IF limited THEN [rejected EXCEPT ![s] = Append(@, now)]
                         ELSE rejected
          /\ pc' = [pc EXCEPT ![t] = IF limited THEN "done" ELSE "get_history"]
          /\ status' = [status EXCEPT ![t] = IF limited THEN 429 ELSE @]
    /\ UNCHANGED <<now, conversations, heap, arg, hist, conversation, wpc,
                   wakeAt, started, log, since, faults, others>>

\* conversation_history = conversation_manager.get_conversation(session_id)
GetHistory(t) ==
    /\ pc[t] = "get_history"
    /\ CanAcquire(t)
    /\ lock' = Release(Acquire(lock, t), t)
    /\ LET s == arg[t].sid
           convs1 == GetConversationMap(conversations, heap, s, now)
           hp1 == GetConversationHeap(conversations, heap, s)
           h1 == [hist EXCEPT ![t] = convs1[s].messages]
       IN /\ conversations' = convs1
          /\ hist' = h1
          /\ heap' = Collect(hp1, convs1, h1, conversation)
    /\ pc' = [pc EXCEPT ![t] = "am_acquire"]
    /\ UNCHANGED <<now, message_counts, arg, conversation, status, wpc, wakeAt,
                   started, log, admitted, rejected, since, faults, others>>

\* generate_response: the turns of conversation_history it puts in the prompt
PromptHistory(t) == LastN(heap[hist[t]], PROMPT_TURNS)

\* a handler that appends the reply whether or not generation succeeded
GenerateAppendsAnyway(t, success) ==
    /\ pc[t] = "generate"
    /\ hist[t] \in DOMAIN heap
    /\ arg' = [arg EXCEPT ![t].role = "assistant"]
    /\ pc' = [pc EXCEPT ![t] = "am_acquire"]
    /\ UNCHANGED <<status, hist, heap, now, conversations, message_counts, lock,
                   conversation, wpc, wakeAt, started, log, admitted, rejected,
                   since, faults, others>>

\* reply, success = ai_handler.generate_response(message, conversation_history):
\* it formats conversation_history[-6:] and calls the model. On success chat
\* goes on to add_message(session_id, "assistant", reply), else it answers 500
Generate(t, success) ==
    /\ pc[t] = "generate"
    /\ hist[t] \in DOMAIN heap
    /\ IF success
       THEN /\ arg' = [arg EXCEPT ![t].role = "assistant"]
            /\ pc' = [pc EXCEPT ![t] = "am_acquire"]
            /\ UNCHANGED <<status, hist, heap>>
       ELSE /\ pc' = [pc EXCEPT ![t] = "done"]
            /\ status' = [status EXCEPT ![t] = 500]
            /\ hist' = [hist EXCEPT ![t] = NoList]
            /\ heap' = Collect(heap, conversations, [hist EXCEPT ![t] = NoList], conversation)
            /\ arg' = arg
    /\ UNCHANGED <<now, conversations, message_counts, lock, conversation, wpc,
                   wakeAt, started, log, admitted, rejected, since, faults, others>>

-----------------------------------------------------------------------------
(* POST /text-to-speech: an async handler, run by the event-loop thread *)

StartTts(t, max) ==
    /\ t = LoopThread
    /\ pc[t] \in {"idle", "done"}
    /\ started < max
    /\ started' = started + 1
    /\ arg' = [arg EXCEPT ![t] = [kind |-> "tts", sid |-> "none", role |-> "none",
                                  content |-> started + 1]]
    /\ pc' = [pc EXCEPT ![t] = "tts_call"]
    /\ status' = [status EXCEPT ![t] = 0]
    /\ UNCHANGED <<now, conversations, heap, message_counts, lock, hist,
                   conversation, wpc, wakeAt, log, admitted, rejected, since, faults, others>>

\* audio_data = ai_handler.text_to_speech(...): audio, or None and a 500
TtsCall(t, audio) ==
    /\ pc[t] = "tts_call"
    /\ pc' = [pc EXCEPT ![t] = "done"]
    /\ status' = [status EXCEPT ![t] = IF audio THEN 200 ELSE 500]
    /\ UNCHANGED <<now, conversations, heap, message_counts, lock, arg, hist,
                   conversation, wpc, wakeAt, started, log, admitted, rejected, since,
                   faults, others>>

-----------------------------------------------------------------------------
(* POST /conversation/clear: a sync handler, run by a pool thread *)

StartClear(t, s, max) ==
    /\ t \in PoolThreads
    /\ pc[t] \in {"idle", "done"}
    /\ started < max
    /\ started' = started + 1
    /\ arg' = [arg EXCEPT ![t] = [kind |-> "clear", sid |-> s, role |-> "none",
                                  content |-> started + 1]]
    /\ pc' = [pc EXCEPT ![t] = "clear"]
    /\ status' = [status EXCEPT ![t] = 0]
    /\ UNCHANGED <<now, conversations, heap, message_counts, lock, hist,
                   conversation, wpc, wakeAt, log, admitted, rejected, since, faults, others>>

\* a clear that empties the whole conversation map
ClearedEverySession(convs, s) == <<>>

\* clear_conversation: the conversation map it leaves
ClearedConversations(convs, s) == Without(convs, {s})

\* a clear that forgets to delete the rate window
KeptCounts(mc, s) == mc

\* clear_conversation: the rate-window map it leaves
ClearedCounts(mc, s) == Without(mc, {s})

\* how many admissions of x precede the last deletion of its rate window
SinceAfter(mc1, x) ==
    IF x \in DOMAIN message_counts /\ x \notin DOMAIN mc1
    THEN Len(admitted[x]) ELSE since[x]

\* `with conversation_manager.lock:` the two deletions; then the answer
Clear(t) ==
    /\ pc[t] = "clear"
    /\ CanAcquire(t)
    /\ lock' = Release(Acquire(lock, t), t)
    /\ LET s == arg[t].sid
           convs1 == ClearedConversations(conversations, s)
           mc1 == ClearedCounts(message_counts, s)
       IN /\ conversations' = convs1
          /\ message_counts' = mc1
          /\ heap' = Collect(heap, convs1, hist, conversation)
          /\ since' = [x \in Sessions |-> SinceAfter(mc1, x)]
    /\ pc' = [pc EXCEPT ![t] = "done"]
    /\ status' = [status EXCEPT ![t] = 200]
    /\ UNCHANGED <<now, arg, hist, conversation, wpc, wakeAt, started, log,
                   admitted, rejected, faults, others>>

-----------------------------------------------------------------------------
(* cleanup_worker: the daemon thread *)

\* when a time.sleep(300) begun at t ends; past the horizon of the clock all
\* wake-up times are alike
SleepUntil(t, horizon) == Min(t + SWEEP_INTERVAL, horizon + 1)

\* time.sleep(300) returns
WorkerWake ==
    /\ wpc = "sleep"
    /\ now >= wakeAt
    /\ wpc' = "sweep"
    /\ UNCHANGED <<now, conversations, heap, message_counts, lock, pc, arg,
                   hist, conversation, status, wakeAt, started, log, admitted,
                   rejected, since, faults, others>>

\* cleanup_old_conversations: the conversation map it leaves
SweptConversations(convs, t) == Without(convs, ExpiredSessions(convs, t))

\* a sweep that forgets the rate windows
SweptCountsKept(convs, mc, t) == mc

\* cleanup_old_conversations: the rate-window map it leaves
SweptCounts(convs, mc, t) == Without(mc, ExpiredSessions(convs, t))

\* a worker whose loop ends with the first exception
DiesOnSweepError == "dead"

\* cleanup_worker: `except Exception` logs and the while loop goes on
AfterSweepError == "sleep"

\* conversation_manager.cleanup_old_conversations() inside try/except, under
\* the lock from its first line to its last. raises = TRUE is an exception
\* raised before anything is deleted; the with block releases the lock,
\* cleanup_worker logs the exception and sleeps again.
WorkerSweep(raises, horizon) ==
    /\ wpc = "sweep"
    /\ CanAcquire(Worker)
    /\ lock' = Release(Acquire(lock, Worker), Worker)
    /\ IF raises
       THEN /\ faults < MaxSweepFaults
            /\ faults' = faults + 1
            /\ wpc' = AfterSweepError
            /\ UNCHANGED <<conversations, message_counts, heap, since>>
       ELSE LET convs1 == SweptConversations(conversations, now)
                mc1 == SweptCounts(conversations, message_counts, now)
            IN /\ faults' = faults
               /\ wpc' = "sleep"
               /\ conversations' = convs1
               /\ message_counts' = mc1
               /\ heap' = Collect(heap, convs1, hist, conversation)
               /\ since' = [x \in Sessions |-> SinceAfter(mc1, x)]
    /\ wakeAt' = SleepUntil(now, horizon)
    /\ UNCHANGED <<now, pc, arg, hist, conversation, status, started, log,
                   admitted, rejected, others>>

-----------------------------------------------------------------------------
(* The clock *)

\* positions at which a thread waits long enough for the clock to move:
\* between two requests and inside a call of the model
Waiting(t) == pc[t] \in {"idle", "done", "generate", "tts_call"}

\* the clock moves in steps of half a minute; the steps of a handler between
\* two such positions, and a sweep once the worker is awake, take no time at
\* that scale
Tick(d, horizon) ==
    /\ now + d <= horizon
    /\ \A t \in Threads : Waiting(t)
    /\ wpc = "sleep"
    /\ now' = now + d
    /\ UNCHANGED <<conversations, heap, message_counts, lock, pc, arg, hist,
                   conversation, status, wpc, wakeAt, started, log, admitted,
                   rejected, since, faults, others>>

-----------------------------------------------------------------------------
(* The service: handlers, worker and clock *)

\* observation starts when the worker's sleep is about to end and the store
\* is empty
Init == InitStore /\ InitOthers /\ wakeAt = 0

Next ==
    \/ \E d \in TickSteps : Tick(d, MaxTime)
    \/ \E t \in Threads, s \in Sessions, long \in BOOLEAN : StartChat(t, s, long, MaxRequests)
    \/ \E t \in Threads : RateLimit(t)
    \/ \E t \in Threads : GetHistory(t)
    \/ \E t \in Threads : AmAcquire(t)
    \/ \E t \in Threads : AmBody(t)
    \/ \E t \in Threads, success \in BOOLEAN : Generate(t, success)
    \/ \E t \in Threads : StartTts(t, MaxRequests)
    \/ \E t \in Threads, audio \in BOOLEAN : TtsCall(t, audio)
    \/ \E t \in Threads, s \in Sessions : StartClear(t, s, MaxRequests)
    \/ \E t \in Threads : Clear(t)
    \/ WorkerWake
    \/ \E raises \in BOOLEAN : WorkerSweep(raises, MaxTime)

Spec == Init /\ [][Next]_vars

-----------------------------------------------------------------------------
(* One session over more than a minute: chat, clear, the worker, the clock *)

RateSession == "s1"

NextRate ==
    \/ \E d \in TickSteps : Tick(d, MaxRateTime)
    \/ StartChat(LoopThread, RateSession, FALSE, MaxRateRequests)
    \/ RateLimit(LoopThread)
    \/ GetHistory(LoopThread)
    \/ AmAcquire(LoopThread)
    \/ AmBody(LoopThread)
    \/ \E success \in BOOLEAN : Generate(LoopThread, success)
    \/ \E t \in PoolThreads : StartClear(t, RateSession, MaxRateRequests)
    \/ \E t \in PoolThreads : Clear(t)
    \/ WorkerWake
    \/ \E raises \in BOOLEAN : WorkerSweep(raises, MaxRateTime)

SpecRate == Init /\ [][NextRate]_vars

-----------------------------------------------------------------------------
(* Properties of add_message *)

\* no add_message call on s is between taking the lock and releasing it
Quiescent(s) == \A t \in Threads : ~(arg[t].sid = s /\ pc[t] = "am_body")

Contents(msgs) == [i \in 1..Len(msgs) |-> msgs[i].content]

\* C1: after N >= 1 calls of add_message on a session (the single caller
\* numbers its calls 1, 2, ... per session) the stored history has min(N, 20)
\* messages, and they are calls N - min(N, 20) + 1 .. N in that order; after
\* 21 calls the first stored message is that of call 2.
C1_SlidingWindow ==
    \A s \in Sessions :
        LET N == Len(log[s])
            k == Min(N, MAX_HISTORY)
        IN (Quiescent(s) /\ N >= 1) =>
              /\ Len(Stored(s)) = k
              /\ \A i \in 1..k : Stored(s)[i].content = N - k + i
              /\ \A i \in 1..k : Stored(s)[i].role = "user"

\* C1 witness: 21 calls completed on a session, the first stored is call 2
C1_Witness ==
    \E s \in Sessions :
        /\ Quiescent(s) /\ Len(log[s]) = MAX_HISTORY + 1
        /\ Len(Stored(s)) = MAX_HISTORY
        /\ Stored(s)[1].content = 2

\* a step of add_message's locked section taken by t
InAddMessage(t) == pc[t] \in {"am_acquire", "am_body"} /\ pc'[t] # pc[t]

\* C9: with concurrent callers (no clear, no sweep) every session's stored
\* contents are the last 20 of the contents in the order their calls took the
\* lock (nothing lost, nothing duplicated), and a step of add_message on one
\* session leaves the history of every other session as it was.
C9_AppendAtomic ==
    /\ [](\A s \in Sessions : Quiescent(s) => Contents(Stored(s)) = LastN(log[s], MAX_HISTORY))
    /\ [][\A s \in Sessions :
            (\A t \in Threads : InAddMessage(t) => arg[t].sid # s) => Stored(s)' = Stored(s)]_vars

\* C9 witness: two callers appended to one session past the cap, and their
\* calls took the lock in another order than they were made
C9_Witness ==
    \E s \in Sessions :
        /\ Quiescent(s) /\ Len(log[s]) > MAX_HISTORY
        /\ \E i \in 1..(Len(log[s]) - 1) : log[s][i] > log[s][i + 1]
        /\ Contents(Stored(s)) = LastN(log[s], MAX_HISTORY)
        /\ \E t \in Threads : pc[t] = "am_acquire" /\ arg[t].sid = s

-----------------------------------------------------------------------------
(* Properties of the rate limit *)

\* how many of the times of seq lie in the 60 seconds that start at a
InWindow(seq, a) == Cardinality({i \in 1..Len(seq) : a <= seq[i] /\ seq[i] <= a + WINDOW})

\* no 60 seconds hold more than RATE_LIMIT_PER_MINUTE of the times of seq
Capped(seq) == \A i \in 1..Len(seq) : InWindow(seq, seq[i]) <= RATE_LIMIT_PER_MINUTE

\* the admissions of s since its rate window was last deleted
AdmittedSince(s) == SubSeq(admitted[s], since[s] + 1, Len(admitted[s]))

\* C2 as stated: whatever clears and sweeps are interleaved, no session has
\* more than RATE_LIMIT_PER_MINUTE admitted chat requests in any 60 seconds.
C2_AnyInterleaving == \A s \in Sessions : Capped(admitted[s])

\* C2 amended: among the chat requests of a session admitted since a clear or
\* a sweep last deleted its rate window, no 60 seconds hold more than
\* RATE_LIMIT_PER_MINUTE: the request that would be one too many is rejected.
C2_WindowCap ==
    \A s \in Sessions : Capped(AdmittedSince(s))

\* C2 witness: a request was answered 429 while RATE_LIMIT_PER_MINUTE earlier
\* requests of its session lay in the last 60 seconds
C2_Witness ==
    \E t \in Threads :
        /\ pc[t] = "done" /\ status[t] = 429
        /\ Len(AdmittedSince(arg[t].sid)) = RATE_LIMIT_PER_MINUTE
        /\ InWindow(AdmittedSince(arg[t].sid), now - WINDOW) = RATE_LIMIT_PER_MINUTE
        /\ rejected[arg[t].sid] # <<>>
        /\ rejected[arg[t].sid][Len(rejected[arg[t].sid])] = now

\* a step in which t's call of is_rate_limited returns
RateChecked(t) == pc[t] = "rate_check" /\ pc'[t] # "rate_check"

\* C3: a chat request checked when the oldest recorded timestamp of its
\* session is more than 60 seconds old is admitted (never answered 429),
\* however many requests of the session were rejected before it.
C3_ReadmittedAfterWindow ==
    [][\A t \in Threads :
         LET q == DequeOf(message_counts, arg[t].sid)
         IN (RateChecked(t) /\ q # <<>> /\ q[1] < now - WINDOW) =>
               /\ pc'[t] = "get_history"
               /\ status'[t] # 429
               /\ rejected' = rejected]_vars

\* C3 witness: a session at the limit had a request rejected and, more than
\* 60 seconds after its oldest timestamp, has its next request admitted
C3_Witness ==
    \E t \in Threads :
        LET s == arg[t].sid
            a == AdmittedSince(s)
        IN /\ pc[t] = "get_history"
           /\ Len(a) = RATE_LIMIT_PER_MINUTE + 1
           /\ a[Len(a)] = now
           /\ a[1] < now - WINDOW
           /\ \E i \in 1..Len(rejected[s]) :
                 a[RATE_LIMIT_PER_MINUTE] <= rejected[s][i] /\ rejected[s][i] <= a[1] + WINDOW

-----------------------------------------------------------------------------
(* The scenario of the spec: one session, four chat requests at given times *)

\* requests 1 and 2 come within the first 10 seconds, request 3 at second 15,
\* request 4 at second 61
ArrivalTimes(n) == IF n <= 2 THEN 0..10 ELSE IF n = 3 THEN {15} ELSE {61}

ScenarioRequests == 4

\* the clock moves to a second at which the next request may arrive
ScenarioTick ==
    /\ started < ScenarioRequests
    /\ \A t \in Threads : Waiting(t)
    /\ \E tm \in ArrivalTimes(started + 1) : tm > now /\ now' = tm
    /\ UNCHANGED <<conversations, heap, message_counts, lock, pc, arg, hist,
                   conversation, status, wpc, wakeAt, started, log, admitted,
                   rejected, since, faults, others>>

ScenarioChat ==
    /\ now \in ArrivalTimes(started + 1)
    /\ StartChat(LoopThread, RateSession, FALSE, ScenarioRequests)

NextScenario ==
    \/ ScenarioTick
    \/ ScenarioChat
    \/ RateLimit(LoopThread)
    \/ GetHistory(LoopThread)
    \/ AmAcquire(LoopThread)
    \/ AmBody(LoopThread)
    \/ \E success \in BOOLEAN : Generate(LoopThread, success)

\* a process just started: the worker sleeps until second 300
SpecScenario == InitAppend /\ [][NextScenario]_vars

\* the request the loop thread serves has passed the rate check
Checked == arg[LoopThread].kind = "chat" /\ pc[LoopThread] # "rate_check"

\* the n-th request was answered 429
Rejected(n) ==
    arg[LoopThread].content = n => (pc[LoopThread] = "done" /\ status[LoopThread] = 429)

\* the n-th request was admitted: it is not answered 429
Accepted(n) == arg[LoopThread].content = n => status[LoopThread] # 429

\* C4 as stated: whatever seconds 0 <= t1 <= t2 <= 10 the first two requests
\* come at, both are accepted, the third (second 15) is rejected with 429 and
\* the fourth (second 61) is accepted.
C4_AnyFirstTwo == Checked => (Accepted(1) /\ Accepted(2) /\ Rejected(3) /\ Accepted(4))

\* the second the first request of the scenario came at
FirstArrival == admitted[RateSession][1]

\* C4 amended: the first two requests are accepted and the third is rejected
\* with 429 for every 0 <= t1 <= t2 <= 10; the fourth, at second 61, is
\* accepted when t1 = 0 (the first timestamp is then more than 60 seconds
\* old) and rejected with 429 when t1 >= 1.
C4_Scenario ==
    Checked =>
        /\ Accepted(1) /\ Accepted(2) /\ Rejected(3)
        /\ FirstArrival < 61 - WINDOW => Accepted(4)
        /\ FirstArrival >= 61 - WINDOW => Rejected(4)

\* C4 witness: the whole scenario has run with t1 = 0 and t2 = 10, the third
\* request was rejected and the fourth answered 200
C4_Witness ==
    /\ pc[LoopThread] = "done" /\ arg[LoopThread].content = ScenarioRequests
    /\ status[LoopThread] = 200
    /\ admitted[RateSession] = <<0, 10, 61>>
    /\ rejected[RateSession] = <<15>>

-----------------------------------------------------------------------------
(* Properties of cleanup_old_conversations *)

\* the worker's call of cleanup_old_conversations returns normally
SweepStep == wpc = "sweep" /\ wpc' = "sleep" /\ faults' = faults

IdleTime(s) == now - conversations[s].last_activity

\* session s is in the store after the step exactly as it was before it:
\* same record (created_at, last_activity, message list) and same messages
Untouched(s) ==
    /\ s \in DOMAIN conversations'
    /\ conversations'[s] = conversations[s]
    /\ heap'[conversations'[s].messages] = heap[conversations[s].messages]
    /\ DequeOf(message_counts', s) = DequeOf(message_counts, s)
    /\ (s \in DOMAIN message_counts') = (s \in DOMAIN message_counts)

\* the step removes s and its rate window
Removed(s) == s \notin DOMAIN conversations' /\ s \notin DOMAIN message_counts'

\* C5 as stated: a sweep removes exactly the sessions whose idle time is at
\* least the timeout, a session idle for exactly the timeout included, and
\* leaves every other session untouched.
C5_RemovesIdleAtLeastTimeout ==
    [][SweepStep =>
          /\ DOMAIN conversations' \subseteq DOMAIN conversations
          /\ \A s \in DOMAIN conversations :
                IF IdleTime(s) >= CONVERSATION_TIMEOUT THEN Removed(s) ELSE Untouched(s)]_vars

\* C5 amended: a sweep removes exactly the sessions whose idle time is more
\* than the timeout (a session idle for exactly the timeout stays) and leaves
\* every other session untouched: same messages in the same order, same
\* created_at and last_activity, same rate window.
C5_RemovesIdleOverTimeout ==
    [][SweepStep =>
          /\ DOMAIN conversations' \subseteq DOMAIN conversations
          /\ \A s \in DOMAIN conversations :
                IF IdleTime(s) > CONVERSATION_TIMEOUT THEN Removed(s) ELSE Untouched(s)]_vars

\* no /conversation/clear has been asked for
NeverCleared == \A t \in PoolThreads : arg[t].kind = "none"

\* C5 witness: with no clear ever made, a session that had messages is gone
\* with its rate window after a sweep that did not raise, and the other
\* session is in the store with its messages
C5_Witness ==
    /\ NeverCleared /\ faults = 0 /\ wpc = "sleep" /\ wakeAt > now
    /\ \E s \in Sessions, r \in Sessions :
          /\ log[s] # <<>> /\ s \notin DOMAIN conversations
          /\ s \notin DOMAIN message_counts
          /\ r \in DOMAIN conversations /\ Stored(r) # <<>>

-----------------------------------------------------------------------------
(* Properties of /conversation/clear *)

\* a clear of session s returns
ClearStep(t) == pc[t] = "clear" /\ pc'[t] = "done"

\* the next n rate checks of a window q, all at second t, admit the request
RECURSIVE AdmitsNext(_, _, _)
AdmitsNext(q, t, n) ==
    n = 0 \/ (~IsRateLimited(q, t) /\ AdmitsNext(WindowAfter(q, t), t, n - 1))

\* what get_conversation(s) returns in the state after the step
FreshHistory(s) ==
    LET convs1 == GetConversationMap(conversations', heap', s, now')
        hp1 == GetConversationHeap(conversations', heap', s)
    IN hp1[convs1[s].messages]

\* C6: after a clear of a session, get_conversation for the same id returns an
\* empty history: the session has no record and no rate window, so nothing
\* appended before the clear is visible and the next RATE_LIMIT_PER_MINUTE
\* requests are admitted.
C6_ClearThenFresh ==
    [][\A t \in Threads : ClearStep(t) =>
          LET s == arg[t].sid
          IN /\ s \notin DOMAIN conversations'
             /\ s \notin DOMAIN message_counts'
             /\ FreshHistory(s) = <<>>
             /\ AdmitsNext(DequeOf(message_counts', s), now', RATE_LIMIT_PER_MINUTE)]_vars

\* C6 witness: a clear has returned for a session that had messages and was
\* at its rate limit, before any sweep; the session has no record and no window
C6_Witness ==
    /\ wakeAt = 0 /\ wpc = "sleep"
    /\ \E t \in PoolThreads :
          /\ pc[t] = "done" /\ arg[t].kind = "clear" /\ status[t] = 200
          /\ log[arg[t].sid] # <<>>
          /\ Len(admitted[arg[t].sid]) = RATE_LIMIT_PER_MINUTE
          /\ since[arg[t].sid] = RATE_LIMIT_PER_MINUTE
          /\ arg[t].sid \notin DOMAIN conversations
          /\ arg[t].sid \notin DOMAIN message_counts

-----------------------------------------------------------------------------
(* The lock discipline *)

\* thread t is inside a call of the model: generate_response or text_to_speech
InAiCall(t) == pc[t] \in {"generate", "tts_call"}

\* thread t keeps a reference to a session's message list
KeepsList(t) == hist[t] # NoList

\* C7 as stated: every read of a session's message list is made by a thread
\* that holds the lock, and no handler keeps a reference to a message list
\* after the store call that returned it.
C7_ListOnlyUnderLock ==
    \A t \in Threads : (KeepsList(t) \/ pc[t] = "generate") => Holds(t)

\* C8: a thread inside a call of the model does not hold the lock, so the
\* call never keeps another request, a clear or the sweep from acquiring it.
C8_NoLockInAiCall ==
    \A t \in Threads : InAiCall(t) =>
        /\ ~Holds(t)
        /\ \A u \in (Threads \cup {Worker}) \ {t} : lock.owner \in {NoOne, u}

\* C8 witness: while a chat request is inside generate_response, a clear that
\* came after it has acquired the lock, deleted the session and returned
C8_Witness ==
    /\ pc[LoopThread] = "generate"
    /\ \E t \in PoolThreads :
          /\ pc[t] = "done" /\ arg[t].kind = "clear" /\ status[t] = 200
          /\ arg[t].content > arg[LoopThread].content
          /\ arg[t].sid = arg[LoopThread].sid
          /\ arg[t].sid \notin DOMAIN conversations

-----------------------------------------------------------------------------
(* cleanup_worker over several sleeps: chat requests, the worker, the clock *)

MaxLiveTime == 900

MaxLiveRequests == 2

\* time.sleep(300) ends on time: the clock reaches the worker's wake-up time
\* and does not pass it before the worker has run its sweep
LiveTick == now < wakeAt /\ Tick(SWEEP_INTERVAL, MaxLiveTime)

NextLive ==
    \/ LiveTick
    \/ \E s \in Sessions : StartChat(LoopThread, s, FALSE, MaxLiveRequests)
    \/ RateLimit(LoopThread)
    \/ GetHistory(LoopThread)
    \/ AmAcquire(LoopThread)
    \/ AmBody(LoopThread)
    \/ \E success \in BOOLEAN : Generate(LoopThread, success)
    \/ WorkerWake
    \/ \E raises \in BOOLEAN : WorkerSweep(raises, MaxLiveTime)

\* the worker thread is scheduled, a handler that is running goes on running,
\* and time passes
Fairness ==
    /\ WF_vars(WorkerWake)
    /\ WF_vars(\E raises \in BOOLEAN : WorkerSweep(raises, MaxLiveTime))
    /\ WF_vars(LiveTick)
    /\ WF_vars(RateLimit(LoopThread))
    /\ WF_vars(GetHistory(LoopThread))
    /\ WF_vars(AmAcquire(LoopThread))
    /\ WF_vars(AmBody(LoopThread))

SpecLive == Init /\ [][NextLive]_vars /\ Fairness

\* the second at which the worker's next sweep runs
NextSweep == IF wpc = "sweep" THEN now ELSE wakeAt

\* the first sweep to come that finds session s expired
FirstExpiredSweep(s) ==
    IF IsExpired(conversations[s], NextSweep) THEN NextSweep
    ELSE NextSweep + SWEEP_INTERVAL

\* before the clock's horizon, the sweeps to come that find s expired are more
\* than the sweeps that may still raise
InTime(s) ==
    FirstExpiredSweep(s) + SWEEP_INTERVAL * (MaxSweepFaults - faults) <= MaxLiveTime

\* session s is in the store and no append to it is under way
IdleInStore(s) == s \in DOMAIN conversations /\ Quiescent(s) /\ InTime(s)

\* session s has been removed, or another append to it is under way
RemovedOrAppended(s) == s \notin DOMAIN conversations \/ ~Quiescent(s)

\* C10: the worker never leaves its loop, a sweep that raised included, and a
\* session that receives no further append is eventually removed from the
\* store (as long as sweeps do not raise for ever).
C10_SweepsForEver ==
    /\ [](wpc \in {"sleep", "sweep"})
    /\ \A s \in Sessions : IdleInStore(s) ~> RemovedOrAppended(s)

\* C10 witness: the sweep at second 0 raised, and the next sweep, 300 seconds
\* later, has removed a session that had messages
C10_Witness ==
    /\ now = SWEEP_INTERVAL /\ faults = MaxSweepFaults /\ wpc = "sleep"
    /\ wakeAt > now
    /\ \E s \in Sessions : log[s] # <<>> /\ s \notin DOMAIN conversations

-----------------------------------------------------------------------------
(* The answers of POST /chat *)

\* the session's record and messages, and all rate windows, are as before
HistoryUnchanged(s) ==
    /\ (s \in DOMAIN conversations') = (s \in DOMAIN conversations)
    /\ s \in DOMAIN conversations =>
          /\ conversations'[s] = conversations[s]
          /\ heap'[conversations'[s].messages] = heap[conversations[s].messages]

\* thread t answers its chat request with code c in this step
Answers(t, c) ==
    arg'[t].kind = "chat" /\ pc[t] # "done" /\ pc'[t] = "done" /\ status'[t] = c

\* a new chat request of thread t is read in this step
ChatRead(t) == pc[t] \in {"idle", "done"} /\ arg'[t].kind = "chat" /\ started' # started

\* C11: /chat answers 400 for a message that is too long, else 429 when the
\* session is rate-limited, else 500 when generation fails, else 200 after
\* the reply is appended; a 400 or 429 leaves the session's history and
\* last_activity as they were, and a 400 records no timestamp.
C11_ChatAnswers ==
    [][\A t \in Threads :
        /\ \A s \in Sessions, long \in BOOLEAN :
              StartChat(t, s, long, started + 1) =>
                 IF long
                 THEN /\ pc'[t] = "done" /\ status'[t] = 400
                      /\ HistoryUnchanged(s)
                      /\ message_counts' = message_counts
                 ELSE pc'[t] = "rate_check"
        /\ RateChecked(t) =>
              LET s == arg[t].sid
                  left == Purged(DequeOf(message_counts, s), now - WINDOW)
              IN IF Len(left) >= RATE_LIMIT_PER_MINUTE
                 THEN Answers(t, 429) /\ HistoryUnchanged(s)
                 ELSE pc'[t] = "get_history"
        /\ Generate(t, FALSE) => Answers(t, 500)
        /\ Generate(t, TRUE) => pc'[t] # "done"
        /\ Answers(t, 400) => ChatRead(t)
        /\ Answers(t, 429) => pc[t] = "rate_check"
        /\ Answers(t, 200) => pc[t] = "am_body" /\ arg[t].role = "assistant"
        /\ Answers(t, 500) => pc[t] = "generate"]_vars

\* C11 witness: a chat request of a session with two stored exchanges has
\* been answered 429
C11_Witness ==
    /\ pc[LoopThread] = "done" /\ arg[LoopThread].kind = "chat"
    /\ status[LoopThread] = 429
    /\ Len(Stored(arg[LoopThread].sid)) >= RATE_LIMIT_PER_MINUTE
    /\ Len(rejected[arg[LoopThread].sid]) = 1

-----------------------------------------------------------------------------
(* /conversation/clear: idempotence and frame *)

\* the rate window of session s is as before
WindowUnchanged(s) ==
    /\ (s \in DOMAIN message_counts') = (s \in DOMAIN message_counts)
    /\ DequeOf(message_counts', s) = DequeOf(message_counts, s)

\* session s has neither a record nor a rate window
Absent(s) == s \notin DOMAIN conversations /\ s \notin DOMAIN message_counts

\* C12: a clear always answers 200; of a session with no history and no rate
\* window it changes nothing; a second clear of the same session would leave
\* the state the first one left; and it never changes the history or the
\* rate window of another session.
C12_ClearIdempotent ==
    [][\A t \in Threads : ClearStep(t) =>
          LET s == arg[t].sid
          IN /\ status'[t] = 200
             /\ Absent(s) => /\ conversations' = conversations
                             /\ message_counts' = message_counts
                             /\ heap' = heap
             /\ ClearedConversations(conversations', s) = conversations'
             /\ ClearedCounts(message_counts', s) = message_counts'
             /\ Collect(heap', conversations', hist', conversation') = heap'
             /\ \A r \in Sessions \ {s} : HistoryUnchanged(r) /\ WindowUnchanged(r)]_vars

\* C12 witness: a clear of a session that never had a message or a timestamp
\* has answered 200 while the other session has messages and a rate window
C12_Witness ==
    \E t \in PoolThreads :
        /\ pc[t] = "done" /\ arg[t].kind = "clear" /\ status[t] = 200
        /\ log[arg[t].sid] = <<>> /\ admitted[arg[t].sid] = <<>>
        /\ \E r \in Sessions \ {arg[t].sid} :
              Stored(r) # <<>> /\ DequeOf(message_counts, r) # <<>>

-----------------------------------------------------------------------------
(* retrieve_context: a pure function of the knowledge base and the query *)

\* relevant_entries[:3]
MAX_ENTRIES == 3

\* bounds: categories of a knowledge base, items of a category, characters
\* of a query
MaxCategories == 2
MaxItems == 2
MaxQueryLen == 2

\* item['name'] or item['symptoms'] is missing or is not a dict
NoDict == [dict |-> FALSE, en |-> <<>>, ta |-> <<>>]

\* a dict with the fields en and ta
Dict(en, ta) == [dict |-> TRUE, en |-> en, ta |-> ta]

\* texts are sequences of characters
Space == " "
Items ==
    { [name |-> Dict(<<"A", "b">>, <<>>), symptoms |-> NoDict],
      [name |-> NoDict, symptoms |-> Dict(<< <<"b">>, <<"a">> >>, <<>>)],
      [name |-> Dict(<<"b">>, <<"a">>), symptoms |-> Dict(<< <<"b">> >>, << <<"B">> >>)],
      [name |-> NoDict, symptoms |-> NoDict] }

\* the characters a query is made of
QueryChars == {"a", "B", Space}

\* sequences over S of length at most n
SeqUpTo(S, n) == UNION {[1..k -> S] : k \in 0..n}

\* a category is the list of its items; one without an 'items' key counts as
\* one with an empty list: category.get('items', [])
Categories == SeqUpTo(Items, MaxItems)
KnowledgeBases == SeqUpTo(Categories, MaxCategories)
Queries == SeqUpTo(QueryChars, MaxQueryLen)

\* str.lower() on one character
LowerChar(c) == IF c = "A" THEN "a" ELSE IF c = "B" THEN "b" ELSE c

\* str.lower()
Lower(text) == [i \in 1..Len(text) |-> LowerChar(text[i])]

\* " ".join(texts)
RECURSIVE JoinSpace(_)
JoinSpace(texts) ==
    IF texts = <<>> THEN <<>>
    ELSE IF Len(texts) = 1 THEN texts[1]
    ELSE texts[1] \o <<Space>> \o JoinSpace(Tail(texts))

\* searchable_text: name.en + " " + name.ta when name is a dict, then
\* " ".join(symptoms.en) + " " + " ".join(symptoms.ta) when symptoms is one
SearchableText(item) ==
    (IF ~item.name.dict THEN <<>>
     ELSE item.name.en \o <<Space>> \o item.name.ta)
    \o
    (IF ~item.symptoms.dict THEN <<>>
     ELSE JoinSpace(item.symptoms.en) \o <<Space>> \o JoinSpace(item.symptoms.ta))

\* re.split(r'\s+', q): the pieces between runs of whitespace; a query that
\* starts or ends with whitespace, or is empty, gives the empty piece
RECURSIVE SplitWhitespace(_, _, _)
SplitWhitespace(q, piece, inRun) ==
    IF q = <<>> THEN {piece}
    ELSE IF Head(q) = Space
         THEN (IF inRun THEN {} ELSE {piece}) \cup SplitWhitespace(Tail(q), <<>>, TRUE)
         ELSE SplitWhitespace(Tail(q), Append(piece, Head(q)), FALSE)

\* query_words = set(re.split(r'\s+', query.lower()))
QueryWords(q) == SplitWhitespace(Lower(q), <<>>, FALSE)

\* word in text
Contains(text, word) ==
    \E i \in 0..(Len(text) - Len(word)) : SubSeq(text, i + 1, i + Len(word)) = word

\* any(word in searchable_text.lower() for word in query_words)
Matches(item, words) == \E w \in words : Contains(Lower(SearchableText(item)), w)

\* the inner loop: the matching items of one category are appended
RECURSIVE ScanItems(_, _, _)
ScanItems(items, words, relevant_entries) ==
    IF items = <<>> THEN relevant_entries
    ELSE ScanItems(Tail(items), words,
                   IF Matches(Head(items), words)
                   THEN Append(relevant_entries, Head(items)) ELSE relevant_entries)

\* the outer loop over the categories
RECURSIVE ScanCategories(_, _, _)
ScanCategories(kb, words, relevant_entries) ==
    IF kb = <<>> THEN relevant_entries
    ELSE ScanCategories(Tail(kb), words, ScanItems(Head(kb), words, relevant_entries))

\* a retriever that returns every matching entry
EveryEntry(entries) == entries

\* relevant_entries[:3]
FirstEntries(entries) == SubSeq(entries, 1, Min(Len(entries), MAX_ENTRIES))

\* retrieve_context(query); the entries stand for their json.dumps texts
\* joined by "\n---\n"
RetrieveContext(kb, q) ==
    IF kb = <<>> THEN [kind |-> "unavailable", entries |-> <<>>]
    ELSE LET relevant_entries == ScanCategories(kb, QueryWords(q), <<>>)
         IN IF relevant_entries = <<>>
            THEN [kind |-> "not_found", entries |-> <<>>]
            ELSE [kind |-> "entries", entries |-> FirstEntries(relevant_entries)]

\* a knowledge base has been loaded, or loading failed and it is []
InitRetrieve ==
    /\ InitStore /\ wakeAt = SWEEP_INTERVAL
    /\ knowledge_base \in KnowledgeBases
    /\ query = NoQuery
    /\ context = NoContext
    /\ model = TRUE
    /\ upload = NoUpload

\* context = retrieve_context(message)
Retrieve(q) ==
    /\ query' = <<q>>
    /\ context' = RetrieveContext(knowledge_base, q)
    /\ UNCHANGED <<now, conversations, heap, message_counts, lock, pc, arg, hist,
                   conversation, status, wpc, wakeAt, started, log, admitted,
                   rejected, since, faults, knowledge_base, model, upload>>

NextRetrieve == \E q \in Queries : Retrieve(q)

SpecRetrieve == InitRetrieve /\ [][NextRetrieve]_vars

\* all items of the knowledge base, category after category
RECURSIVE Flatten(_)
Flatten(kb) == IF kb = <<>> THEN <<>> ELSE Head(kb) \o Flatten(Tail(kb))

\* the positions in Flatten(kb) of the items whose lower-cased searchable text
\* contains some lower-cased query word
MatchingPositions(kb, q) ==
    {i \in 1..Len(Flatten(kb)) :
        \E w \in QueryWords(q) : Contains(Lower(SearchableText(Flatten(kb)[i])), w)}

\* the k-th smallest element of a set of numbers
Kth(S, k) == CHOOSE i \in S : Cardinality({j \in S : j < i}) = k - 1

\* C13: retrieve_context returns the 'unavailable' sentinel for an empty
\* knowledge base, the 'no information found' sentinel when no entry matches,
\* and otherwise the first 3 (or fewer) matching entries in knowledge-base
\* order, an entry matching when its searchable text contains a query word.
C13_RetrieveContext ==
    query # NoQuery =>
        LET pos == MatchingPositions(knowledge_base, query[1])
            n == Min(Cardinality(pos), MAX_ENTRIES)
        IN /\ knowledge_base = <<>> <=> context.kind = "unavailable"
           /\ (knowledge_base # <<>> /\ pos = {}) <=> context.kind = "not_found"
           /\ (knowledge_base # <<>> /\ pos # {}) <=> context.kind = "entries"
           /\ context.kind = "entries" =>
                 /\ Len(context.entries) = n
                 /\ \A k \in 1..n :
                       context.entries[k] = Flatten(knowledge_base)[Kth(pos, k)]
           /\ context.kind # "entries" => context.entries = <<>>

\* C13 witness: a query of one word matched four entries in two categories,
\* the third of them through the text of two fields run together, and three
\* entries were returned
C13_Witness ==
    /\ query = << <<"a", "B">> >>
    /\ Len(knowledge_base) = MaxCategories
    /\ Cardinality(MatchingPositions(knowledge_base, query[1])) = MAX_ENTRIES + 1
    /\ ~Contains(Lower(Flatten(knowledge_base)[3].name.ta), <<"a", "b">>)
    /\ Flatten(knowledge_base)[3].name.dict /\ Flatten(knowledge_base)[3].symptoms.dict
    /\ context.kind = "entries" /\ Len(context.entries) = MAX_ENTRIES

-----------------------------------------------------------------------------
(* disease.py, POST /predict *)

\* uploads made in one behaviour
MaxUploads == 4

\* file.content_type: a text, here cut into its type with the slash and its
\* subtype, or None when the part carries no Content-Type header
NoContentType == [given |-> FALSE, text |-> <<>>]
ContentTypes ==
    {NoContentType} \cup
    {[given |-> TRUE, text |-> x] :
        x \in {<<"image/", "png">>, <<"image/", "jpeg">>, <<"text/", "plain">>,
               <<"image">>, <<>>}}

\* a test for the prefix "image", without the slash
StartsWithImageWord(ct) == Len(ct.text) >= 1 /\ ct.text[1] \in {"image/", "image"}

\* file.content_type.startswith("image/")
StartsWithImage(ct) == Len(ct.text) >= 1 /\ ct.text[1] = "image/"

\* `if not model:`
ModelMissing == ~model

\* the module is imported: the model is loaded, or it is None because the key
\* is missing or configuring raised
InitPredict ==
    /\ InitStore /\ wakeAt = SWEEP_INTERVAL
    /\ knowledge_base = <<>> /\ query = NoQuery /\ context = NoContext
    /\ model \in BOOLEAN
    /\ upload = NoUpload

PredictFrame ==
    UNCHANGED <<now, conversations, heap, message_counts, lock, pc, arg, hist,
                conversation, status, wpc, wakeAt, log, admitted, rejected,
                since, faults, knowledge_base, query, context, model>>

\* an upload arrives
StartPredict(ct) ==
    /\ upload.pc \in {"idle", "done"}
    /\ started < MaxUploads
    /\ started' = started + 1
    /\ upload' = [pc |-> "validate", content_type |-> ct, sent |-> FALSE, status |-> 0]
    /\ PredictFrame

\* the upload is answered with code c
Answered(c) == [upload EXCEPT !.pc = "done", !.status = c]

\* lines 85-90: 503 without a model; then the content type is tested. On a
\* part without Content-Type, content_type is None in a build whose
\* UploadFile takes it from the headers, and None.startswith raises outside
\* the try block (500); in a build that defaults it to "" the answer is 400
PredictValidate(crash) ==
    /\ upload.pc = "validate"
    /\ upload' =
          IF ModelMissing THEN Answered(503)
          ELSE IF ~upload.content_type.given THEN Answered(IF crash THEN 500 ELSE 400)
          ELSE IF ~StartsWithImage(upload.content_type) THEN Answered(400)
          ELSE [upload EXCEPT !.pc = "open"]
    /\ UNCHANGED started
    /\ PredictFrame

\* contents = await file.read(); image = Image.open(...): an exception here
\* is caught by `except Exception` and answered 500
PredictOpen(ok) ==
    /\ upload.pc = "open"
    /\ upload' = IF ok THEN [upload EXCEPT !.pc = "model", !.sent = TRUE]
                 ELSE Answered(500)
    /\ UNCHANGED started
    /\ PredictFrame

\* what model.generate_content and json.loads can do
Outcomes == {"json", "not_json", "error"}

\* response = model.generate_content([system_prompt, image]); json.loads:
\* the parsed result, or 500 on JSONDecodeError or any other exception
PredictModel(outcome) ==
    /\ upload.pc = "model"
    /\ upload' = Answered(IF outcome = "json" THEN 200 ELSE 500)
    /\ UNCHANGED started
    /\ PredictFrame

NextPredict ==
    \/ \E ct \in ContentTypes : StartPredict(ct)
    \/ \E crash \in BOOLEAN : PredictValidate(crash)
    \/ \E ok \in BOOLEAN : PredictOpen(ok)
    \/ \E outcome \in Outcomes : PredictModel(outcome)

SpecPredict == InitPredict /\ [][NextPredict]_vars

\* the upload has been answered
PredictDone == upload.pc = "done"

\* the upload's content type does not start with "image/"
NotImage == ~(upload.content_type.given /\ upload.content_type.text # <<>>
              /\ upload.content_type.text[1] = "image/")

\* C14 as stated: every upload whose content type does not start with
\* 'image/' is answered 400, every upload is answered 503 when the model
\* failed to initialize, and no such upload is sent to the model.
C14_Always400 ==
    /\ PredictDone /\ NotImage => upload.status = 400
    /\ PredictDone /\ ~model => upload.status = 503
    /\ upload.sent => ~NotImage

\* C14 amended: every upload is answered 503 when the model failed to
\* initialize, whatever its content type; with the model loaded, an upload
\* whose content type is given and does not start with 'image/' is answered
\* 400, one without a content type 400 or 500, an image 200 or 500, and 500
\* when opening the image, the provider or the parsing of its output fails;
\* no upload with a non-image content type is ever sent to the model.
C14_PredictAnswers ==
    /\ [](/\ PredictDone /\ ~model => upload.status = 503
          /\ PredictDone /\ model /\ NotImage /\ upload.content_type.given
                => upload.status = 400
          /\ PredictDone /\ model /\ ~upload.content_type.given
                => upload.status \in {400, 500}
          /\ PredictDone /\ model /\ ~NotImage => upload.status \in {200, 500}
          /\ upload.status = 200 => upload.sent
          /\ upload.sent => model /\ ~NotImage)
    /\ [][/\ PredictOpen(FALSE) => upload'.status = 500 /\ ~upload'.sent
          /\ \A outcome \in Outcomes \ {"json"} :
                PredictModel(outcome) => upload'.status = 500
          /\ PredictModel("json") => upload'.status = 200]_vars

\* C14 witness: with the model loaded, a text/plain upload has been answered
\* 400 without being sent to the model
C14_Witness ==
    /\ PredictDone /\ model /\ ~upload.sent /\ upload.status = 400
    /\ upload.content_type = [given |-> TRUE, text |-> <<"text/", "plain">>]

-----------------------------------------------------------------------------
(* The rate window after a check *)

\* a sequence of times in non-decreasing order
NonDecreasing(q) == \A i, j \in 1..Len(q) : i <= j => q[i] <= q[j]

\* C15: right after an is_rate_limited check of a session at time now, every
\* timestamp of the session's window is at least now - 60, the window is in
\* non-decreasing order and it holds at most RATE_LIMIT_PER_MINUTE timestamps.
C15_WindowAfterCheck ==
    [][\A t \in Threads : RateChecked(t) =>
          LET q == DequeOf(message_counts', arg[t].sid)
          IN /\ arg[t].sid \in DOMAIN message_counts'
             /\ \A i \in 1..Len(q) : q[i] >= now - WINDOW
             /\ NonDecreasing(q)
             /\ Len(q) <= RATE_LIMIT_PER_MINUTE]_vars

\* C15 witness: a check at second 61 has dropped the timestamp 0, kept 31 and
\* recorded 61: the window is full again
C15_Witness ==
    /\ pc[LoopThread] = "get_history" /\ now = 61
    /\ DequeOf(message_counts, arg[LoopThread].sid) = <<31, 61>>
    /\ admitted[arg[LoopThread].sid] = <<0, 31, 61>>
    /\ since[arg[LoopThread].sid] = 0

-----------------------------------------------------------------------------
(* Chat requests of two sessions over more than a minute, no clear, no sweep *)

NextCheck ==
    \/ \E d \in TickSteps : Tick(d, MaxRateTime)
    \/ \E s \in Sessions : StartChat(LoopThread, s, FALSE, MaxRateRequests)
    \/ RateLimit(LoopThread)
    \/ GetHistory(LoopThread)
    \/ AmAcquire(LoopThread)
    \/ AmBody(LoopThread)
    \/ \E success \in BOOLEAN : Generate(LoopThread, success)

\* the worker sleeps until second 300
SpecCheck == InitAppend /\ [][NextCheck]_vars

\* the timestamps of q that are not older than 60 seconds at time t
Recent(q, t) == SelectSeq(q, LAMBDA x : x >= t - WINDOW)

\* C16: is_rate_limited first drops the timestamps older than 60 seconds; if
\* RATE_LIMIT_PER_MINUTE or more remain it returns limited and records
\* nothing, else it appends the current time, once, and returns not limited.
\* It changes no session's messages or last_activity and no other session's
\* rate window.
C16_CheckEffect ==
    [][\A t \in Threads : RateChecked(t) =>
          LET s == arg[t].sid
              left == Recent(DequeOf(message_counts, s), now)
          IN /\ IF Len(left) >= RATE_LIMIT_PER_MINUTE
                THEN /\ Answers(t, 429)
                     /\ DequeOf(message_counts', s) = left
                ELSE /\ pc'[t] = "get_history"
                     /\ DequeOf(message_counts', s) = Append(left, now)
             /\ conversations' = conversations
             /\ heap' = heap
             /\ \A r \in Sessions \ {s} : WindowUnchanged(r)]_vars

\* C16 witness: a check of one session at second 61 has dropped its two
\* timestamps 0 and recorded 61 while the other session has a window and
\* messages
C16_Witness ==
    /\ pc[LoopThread] = "get_history" /\ now = 61
    /\ DequeOf(message_counts, arg[LoopThread].sid) = <<61>>
    /\ admitted[arg[LoopThread].sid] = <<0, 0, 61>>
    /\ \E r \in Sessions \ {arg[LoopThread].sid} :
          DequeOf(message_counts, r) # <<>> /\ Stored(r) # <<>>

-----------------------------------------------------------------------------
(* The rate windows across a sweep *)

\* a chat request is between its first line and its answer
ChatInFlight ==
    \E t \in Threads : arg[t].kind = "chat" /\ pc[t] \notin {"idle", "done"}

\* requests started in one behaviour of the specification below
MaxWindowRequests == 2

\* chat and clear requests, the worker over several sleeps, the clock
NextWindows ==
    \/ LiveTick
    \/ \E s \in Sessions : StartChat(LoopThread, s, FALSE, MaxWindowRequests)
    \/ RateLimit(LoopThread)
    \/ GetHistory(LoopThread)
    \/ AmAcquire(LoopThread)
    \/ AmBody(LoopThread)
    \/ \E success \in BOOLEAN : Generate(LoopThread, success)
    \/ \E t \in PoolThreads, s \in Sessions : StartClear(t, s, MaxWindowRequests)
    \/ \E t \in PoolThreads : Clear(t)
    \/ WorkerWake
    \/ WorkerSweep(FALSE, MaxLiveTime)

\* the worker thread is scheduled, a handler that is running goes on running,
\* and time passes
FairnessWindows ==
    /\ WF_vars(WorkerWake)
    /\ WF_vars(WorkerSweep(FALSE, MaxLiveTime))
    /\ WF_vars(LiveTick)
    /\ WF_vars(RateLimit(LoopThread))
    /\ WF_vars(GetHistory(LoopThread))
    /\ WF_vars(AmAcquire(LoopThread))
    /\ WF_vars(AmBody(LoopThread))
    /\ \A t \in PoolThreads : WF_vars(Clear(t))

\* no sweep raises
SpecWindows == Init /\ [][NextWindows]_vars /\ FairnessWindows

\* C17: a sweep removes the rate window of every session it removes and
\* leaves the rate window of every other session as it was; whenever no chat
\* request is in flight, every session that has a rate window has a
\* conversation record; and the rate window of a session that receives no
\* further append is eventually removed by a sweep or a clear.
C17_WindowsFollowRecords ==
    /\ [](~ChatInFlight => DOMAIN message_counts \subseteq DOMAIN conversations)
    /\ \A s \in Sessions :
          (s \in DOMAIN message_counts /\ IdleInStore(s))
              ~> (s \notin DOMAIN message_counts \/ ~Quiescent(s))
    /\ [][SweepStep =>
             \A s \in Sessions :
                IF s \in DOMAIN conversations /\ s \notin DOMAIN conversations'
                THEN s \notin DOMAIN message_counts'
                ELSE WindowUnchanged(s)]_vars

\* C17 witness: with no clear ever made and no chat in flight, a sweep has
\* removed an admitted session with its rate window and kept the other
\* session with its record and its non-empty rate window
C17_Witness ==
    /\ NeverCleared /\ ~ChatInFlight
    /\ wpc = "sleep" /\ wakeAt > now
    /\ \E s \in Sessions, r \in Sessions :
          /\ admitted[s] # <<>> /\ s \notin DOMAIN conversations
          /\ s \notin DOMAIN message_counts
          /\ r \in DOMAIN conversations
          /\ DequeOf(message_counts, r) # <<>>

-----------------------------------------------------------------------------
(* /chat when generation fails *)

\* neither a clear nor a sweep has deleted the rate window of s since its
\* last admission (from an admission on the window exists, and the record is
\* never deleted without it)
Intact(s) == since[s] < Len(admitted[s])

\* the newest stored message of the session of t's request is the user
\* message of that request, and the newest timestamp of its rate window is
\* the one recorded at its admission
UserMessageStored(t) ==
    LET s == arg[t].sid
        msgs == Stored(s)
        q == DequeOf(message_counts, s)
    IN /\ msgs # <<>>
       /\ msgs[Len(msgs)].role = "user"
       /\ msgs[Len(msgs)].content = arg[t].content
       /\ q # <<>>
       /\ q[Len(q)] = admitted[s][Len(admitted[s])]

\* the assistant messages in a list of messages
AssistantMessages(msgs) == SelectSeq(msgs, LAMBDA m : m.role = "assistant")

\* thread t's chat request has been answered 500
Failed(t) == arg[t].kind = "chat" /\ pc[t] = "done" /\ status[t] = 500

\* C18: when the model is called the user message of the request is stored;
\* the reply is appended only after a successful generation; a failed
\* generation answers 500 and changes nothing in the store, so the user
\* message and the recorded timestamp are still there after the answer
\* (unless a clear or a sweep has deleted the session meanwhile).
C18_FailureKeepsUserMessage ==
    /\ [](\A t \in Threads :
            (pc[t] = "generate" \/ Failed(t)) /\ Intact(arg[t].sid)
                => UserMessageStored(t))
    /\ [][\A t \in Threads :
            /\ Generate(t, FALSE) =>
                  /\ Answers(t, 500)
                  /\ conversations' = conversations
                  /\ message_counts' = message_counts
                  /\ \A s \in DOMAIN conversations : Stored(s)' = Stored(s)
            /\ (arg[t].role # "assistant" /\ arg'[t].role = "assistant")
                  => Generate(t, TRUE)
            /\ \A s \in DOMAIN conversations' :
                  Len(AssistantMessages(Stored(s)')) > Len(AssistantMessages(Stored(s)))
                     => \E u \in Threads :
                           /\ pc[u] = "am_body" /\ arg[u].sid = s
                           /\ arg[u].kind = "chat" /\ arg[u].role = "assistant"]_vars

\* C18 witness: a chat request has been answered 500 after a clear of the
\* other session; its user message is the newest message of its session and
\* its timestamp the newest of the rate window
C18_Witness ==
    /\ Failed(LoopThread) /\ Intact(arg[LoopThread].sid)
    /\ UserMessageStored(LoopThread)
    /\ AssistantMessages(Stored(arg[LoopThread].sid)) = <<>>
    /\ \E t \in PoolThreads :
          /\ pc[t] = "done" /\ arg[t].kind = "clear"
          /\ arg[t].sid # arg[LoopThread].sid

-----------------------------------------------------------------------------
(* A chat request in flight across a clear or a sweep of its session *)

\* msgs holds a message of request number c
HasMessageOf(msgs, c) == \E i \in 1..Len(msgs) : msgs[i].content = c

\* every assistant message of msgs comes right after the user message of the
\* same request
AnswersFollowQuestions(msgs) ==
    \A i \in 1..Len(msgs) :
        msgs[i].role = "assistant" =>
            /\ i > 1
            /\ msgs[i - 1].role = "user"
            /\ msgs[i - 1].content = msgs[i].content

\* C19 as stated: once a clear or a sweep has deleted a session after the
\* admission of a chat request, the session's history holds no message of
\* that request; and in every history each assistant message is preceded by
\* the user message it answers.
C19_NoMessagesPutBack ==
    /\ \A t \in Threads :
          arg[t].kind = "chat" /\ ~Intact(arg[t].sid)
              => ~HasMessageOf(Stored(arg[t].sid), arg[t].content)
    /\ \A s \in DOMAIN conversations : AnswersFollowQuestions(Stored(s))

====
